---- MODULE Spec2Model ----
(***************************************************************************)
(* MRDetailPage (src/moon/src/components/MergeDetail.tsx): a React         *)
(* component holding three state cells (filedata, loadings, error), one    *)
(* effect keyed on the mrDetail prop that fetches the changed-file list,   *)
(* and a click handler that POSTs a merge and refreshes the router.        *)
(*                                                                         *)
(* Every synchronous stretch of JavaScript is one action: a render with    *)
(* the effect it commits, a click, and each continuation that runs when an *)
(* awaited promise settles.                                                *)
(***************************************************************************)
EXTENDS Naturals, Sequences, FiniteSets, TLC

\* ------------------------------------------------------------------ bounds
MaxRenders == 2   \* how many times the parent supplies the mrDetail prop
MaxMerges  == 2   \* how many times the merge button is activated

\* ------------------------------------------------- values of the JS world
\* Identifier values are written with their JavaScript type: "num:1" is the
\* number 1, "str:a" the string "a", "str:" the empty string.
\* The values JavaScript coerces to false in `!mrDetail.id`.
Falsy == {"undefined", "null", "num:0", "str:"}

\* undefined and null: the identifier is not defined.
Nullish(v) == v \in {"undefined", "null"}

\* Mutant: the guard written as `mrDetail.id == null`.
Truthy_definedOnly(v) == ~Nullish(v)

Truthy(v) == v \notin Falsy

\* The mrDetail prop is a reference: Absent stands for undefined / null, any
\* other value is the address of a summary object.  Two addresses may hold
\* equal contents (objects 1 and 2).
Absent == 0

Objects == 1..6

Heap ==
    <<[id |-> "num:1",     status |-> "open"],
      [id |-> "num:1",     status |-> "open"],
      [id |-> "str:a",     status |-> "merged"],
      [id |-> "num:0",     status |-> "open"],
      [id |-> "undefined", status |-> "open"],
      [id |-> "null",      status |-> "closed"]>>

Supplies == Objects \cup {Absent}

\* Bodies the files endpoint can answer with: result.data.data when the
\* nested field exists, or a body with no `data` field at all.
Payloads == {<<"a.txt", "b.txt">>, <<"b.txt", "a.txt", "a.txt">>}

Results ==
    {[hasData |-> TRUE, data |-> p] : p \in Payloads}
        \cup {[hasData |-> FALSE, data |-> <<>>]}

\* error state cell: null, or the value caught by fetchFileList's catch,
\* tagged with the request it came from.
NoError == [name |-> "null", n |-> 0]

VARIABLES
    supplied,     \* the props the parent has supplied, oldest first
    mrDetail,     \* the prop of the latest render
    deps,         \* dependency array of the last committed effect
    renderError,  \* TRUE once a render of the component has thrown
    filedata,     \* useState([])
    loadings,     \* useState<boolean[]>([]), a sparse array
    error,        \* useState(null)
    files,        \* GET /api/mr/{id}/files requests, in issue order
    merges,       \* POST /api/mr/{id}/merge requests, in issue order
    refreshes,    \* refreshes[n]: router.refresh() calls of merge n
    unhandled,    \* merge activations that ended in an unhandled rejection
    filedataOf    \* identifier whose GET produced the current filedata

vars == <<supplied, mrDetail, deps, renderError, filedata, loadings, error,
          files, merges, refreshes, unhandled, filedataOf>>

\* ------------------------------------------------------- pure helpers
\* loadings[index] read as a boolean: a hole or an index past the end is
\* undefined, which is falsy.
Busy(l, index) == index \in DOMAIN l /\ l[index]

\* Mutant: the updater starts from an empty array, not from a copy.
set_to_loading_fresh(prevLoadings, index) == [i \in {index} |-> TRUE]

\* set_to_loading's updater: copy, then write true at index.
set_to_loading(prevLoadings, index) ==
    [i \in (DOMAIN prevLoadings) \cup {index} |->
        IF i = index THEN TRUE ELSE prevLoadings[i]]

\* cancel_loading's updater: copy, then write false at index.
cancel_loading(prevLoadings, index) ==
    [i \in (DOMAIN prevLoadings) \cup {index} |->
        IF i = index THEN FALSE ELSE prevLoadings[i]]

\* React re-runs an effect on mount (no previous dependency array) and
\* whenever some dependency differs from the previous one under Object.is,
\* which for objects is reference equality.
\* Mutant: the effect written without a dependency array.
DepsChanged_always(prevDeps, nextDeps) == TRUE

DepsChanged(prevDeps, nextDeps) ==
    \/ Len(prevDeps) # Len(nextDeps)
    \/ \E i \in 1..Len(nextDeps) : prevDeps[i] # nextDeps[i]

\* The guard of the effect: `if (!mrDetail || !mrDetail.id) return;`
FetchEnabled(s) == s # Absent /\ Truthy(Heap[s].id)

\* Mutant: the button rendered whatever the status is.
ButtonRendered_always(s) == s # Absent

\* `mrDetail.status === "open" && <Button .../>`
ButtonRendered(s) == s # Absent /\ Heap[s].status = "open"

\* Mutant: the button without its loading prop.
ButtonAcceptsClick_always(l) == TRUE

\* <Button loading={loadings[1]} onClick=...>: a loading button does not
\* deliver clicks to onClick.
ButtonAcceptsClick(l) == ~Busy(l, 1)

\* `if (res.ok) router.refresh();`: the router.refresh() calls one response
\* causes.
\* Mutant: router.refresh() forgotten.
RefreshCalls_never(ok) == 0

\* Mutant: router.refresh() called whatever res.ok is.
RefreshCalls_always(ok) == 1

RefreshCalls(ok) == IF ok THEN 1 ELSE 0

InFlight(reqs) == {n \in 1..Len(reqs) : reqs[n].stage \in {"fetch", "json"}}

\* The GET n leaves fetchFileList: its record keeps how it ended and the
\* payload it delivered (`got`).
Settle(reqs, n, stage, got) ==
    [reqs EXCEPT ![n].stage = stage, ![n].got = got]

\* ------------------------------------------------------------- Init
Init ==
    /\ supplied = <<>>
    /\ mrDetail = Absent
    /\ deps = <<>>
    /\ renderError = FALSE
    /\ filedata = <<>>
    /\ loadings = <<>>
    /\ error = NoError
    /\ files = <<>>
    /\ merges = <<>>
    /\ refreshes = <<>>
    /\ unhandled = {}
    /\ filedataOf = "none"

\* ------------------------------------------------------------- actions
\* fetchFileList up to its first await: set_to_loading(2), then fetch(url).
\* `before` and `busy` record the file list and slot 2 as they stand when
\* the GET is issued; `got` is filled in when it settles.
StartFetchFileList(s) ==
    /\ loadings' = set_to_loading(loadings, 2)
    /\ files' = Append(files, [id     |-> Heap[s].id,
                               stage  |-> "fetch",
                               before |-> filedata,
                               busy   |-> Busy(loadings', 2),
                               got    |-> <<>>])

\* The effect body, run when React commits a render whose deps changed.
RunEffect(s) ==
    IF FetchEnabled(s)
    THEN StartFetchFileList(s)
    ELSE UNCHANGED <<loadings, files>>

\* The parent supplies the prop s and the component renders.  With no
\* summary the render itself throws on `mrDetail.status` and nothing is
\* committed; React stops rendering the component.
Render(s) ==
    /\ Len(supplied) < MaxRenders
    /\ ~renderError
    /\ supplied' = Append(supplied, s)
    /\ mrDetail' = s
    /\ IF s = Absent
       THEN /\ renderError' = TRUE
            /\ UNCHANGED <<deps, loadings, files>>
       ELSE /\ renderError' = FALSE
            /\ deps' = <<s>>
            /\ IF DepsChanged(deps, <<s>>)
               THEN RunEffect(s)
               ELSE UNCHANGED <<loadings, files>>
    /\ UNCHANGED <<filedata, error, merges, refreshes, unhandled, filedataOf>>

\* onClick={() => approve_mr(1, mrDetail.id)} up to the await.
MergeClick ==
    /\ Len(supplied) > 0
    /\ ~renderError
    /\ ButtonRendered(mrDetail)
    /\ ButtonAcceptsClick(loadings)
    /\ Len(merges) < MaxMerges
    /\ loadings' = set_to_loading(loadings, 1)
    /\ merges' = Append(merges, [id |-> Heap[mrDetail].id, stage |-> "fetch"])
    /\ refreshes' = Append(refreshes, 0)
    /\ UNCHANGED <<supplied, mrDetail, deps, renderError, filedata, error,
                   files, unhandled, filedataOf>>

\* `await fetch(...)` of the GET resolves: res.json() is called and awaited.
FilesFetchResolved(n) ==
    /\ n \in 1..Len(files)
    /\ files[n].stage = "fetch"
    /\ files' = [files EXCEPT ![n].stage = "json"]
    /\ UNCHANGED <<supplied, mrDetail, deps, renderError, filedata, loadings,
                   error, merges, refreshes, unhandled, filedataOf>>

\* Mutant: the catch block also resets the list.
FilesCatch_clearsList(n, name) ==
    /\ error' = [name |-> name, n |-> n]
    /\ loadings' = cancel_loading(loadings, 2)
    /\ files' = Settle(files, n, "failed", <<>>)
    /\ filedata' = <<>>
    /\ UNCHANGED filedataOf

\* Mutant: cancel_loading(2) at the end of the try block, not in a finally.
FilesCatch_noFinally(n, name) ==
    /\ error' = [name |-> name, n |-> n]
    /\ files' = Settle(files, n, "failed", <<>>)
    /\ UNCHANGED <<loadings, filedata, filedataOf>>

\* Mutant: the catch block calls fetchFileList again.
FilesCatch_retry(n, name) ==
    /\ error' = [name |-> name, n |-> n]
    /\ loadings' = cancel_loading(loadings, 2)
    /\ files' = Append(Settle(files, n, "failed", <<>>),
                       [files[n] EXCEPT !.stage = "fetch"])
    /\ UNCHANGED <<filedata, filedataOf>>

\* catch (err) { setError(err) } finally { cancel_loading(2) }
FilesCatch(n, name) ==
    /\ error' = [name |-> name, n |-> n]
    /\ loadings' = cancel_loading(loadings, 2)
    /\ files' = Settle(files, n, "failed", <<>>)
    /\ UNCHANGED <<filedata, filedataOf>>

\* `await fetch(...)` of the GET rejects (network failure).
FilesFetchRejected(n) ==
    /\ n \in 1..Len(files)
    /\ files[n].stage = "fetch"
    /\ FilesCatch(n, "TypeError: fetch")
    /\ UNCHANGED <<supplied, mrDetail, deps, renderError, merges, refreshes,
                   unhandled>>

\* `await res.json()` rejects (the body is not JSON).
FilesJsonRejected(n) ==
    /\ n \in 1..Len(files)
    /\ files[n].stage = "json"
    /\ FilesCatch(n, "SyntaxError")
    /\ UNCHANGED <<supplied, mrDetail, deps, renderError, merges, refreshes,
                   unhandled>>

\* Mutant: a response for a summary that is no longer current is dropped.
FilesSuccess_ignoreStale(n, result) ==
    /\ IF mrDetail # Absent /\ Heap[mrDetail].id = files[n].id
       THEN filedata' = result.data /\ filedataOf' = files[n].id
       ELSE UNCHANGED <<filedata, filedataOf>>
    /\ loadings' = cancel_loading(loadings, 2)
    /\ files' = Settle(files, n, "done", result.data)
    /\ UNCHANGED error

\* Mutant: setFileData([...filedata, ...result.data.data]).
FilesSuccess_appends(n, result) ==
    /\ filedata' = filedata \o result.data
    /\ filedataOf' = files[n].id
    /\ loadings' = cancel_loading(loadings, 2)
    /\ files' = Settle(files, n, "done", result.data)
    /\ UNCHANGED error

\* Mutant: setError(null) after a successful fetch.
FilesSuccess_clearsError(n, result) ==
    /\ filedata' = result.data
    /\ filedataOf' = files[n].id
    /\ loadings' = cancel_loading(loadings, 2)
    /\ files' = Settle(files, n, "done", result.data)
    /\ error' = NoError

\* setFileData(result.data.data), then the finally block.
FilesSuccess(n, result) ==
    /\ filedata' = result.data
    /\ filedataOf' = files[n].id
    /\ loadings' = cancel_loading(loadings, 2)
    /\ files' = Settle(files, n, "done", result.data)
    /\ UNCHANGED error

\* `await res.json()` resolves with result; reading result.data.data throws
\* a TypeError when result.data is undefined.
FilesJsonResolved(n, result) ==
    /\ n \in 1..Len(files)
    /\ files[n].stage = "json"
    /\ IF result.hasData
       THEN FilesSuccess(n, result)
       ELSE FilesCatch(n, "TypeError: data")
    /\ UNCHANGED <<supplied, mrDetail, deps, renderError, merges, refreshes,
                   unhandled>>

\* Mutant: the file list emptied once the merge has been answered.
MergeResolved_clearsList(n, ok) ==
    /\ n \in 1..Len(merges)
    /\ merges[n].stage = "fetch"
    /\ loadings' = cancel_loading(loadings, 1)
    /\ refreshes' = [refreshes EXCEPT ![n] = @ + RefreshCalls(ok)]
    /\ merges' = [merges EXCEPT ![n].stage = IF ok THEN "ok" ELSE "notok"]
    /\ filedata' = <<>>
    /\ UNCHANGED <<supplied, mrDetail, deps, renderError, error,
                   files, unhandled, filedataOf>>

\* The POST resolves with a response object res; ok is res.ok.
\* `if (res) cancel_loading(index); if (res.ok) router.refresh();`
MergeResolved(n, ok) ==
    /\ n \in 1..Len(merges)
    /\ merges[n].stage = "fetch"
    /\ loadings' = cancel_loading(loadings, 1)
    /\ refreshes' = [refreshes EXCEPT ![n] = @ + RefreshCalls(ok)]
    /\ merges' = [merges EXCEPT ![n].stage = IF ok THEN "ok" ELSE "notok"]
    /\ UNCHANGED <<supplied, mrDetail, deps, renderError, filedata, error,
                   files, unhandled, filedataOf>>

\* Mutant: the await wrapped in try / finally { cancel_loading(index) }.
MergeRejected_finally(n) ==
    /\ n \in 1..Len(merges)
    /\ merges[n].stage = "fetch"
    /\ merges' = [merges EXCEPT ![n].stage = "thrown"]
    /\ unhandled' = unhandled \cup {n}
    /\ loadings' = cancel_loading(loadings, 1)
    /\ UNCHANGED <<supplied, mrDetail, deps, renderError, filedata,
                   error, files, refreshes, filedataOf>>

\* The POST rejects: approve_mr's promise rejects at the await and nothing
\* after it runs; no caller handles the rejection.
MergeRejected(n) ==
    /\ n \in 1..Len(merges)
    /\ merges[n].stage = "fetch"
    /\ merges' = [merges EXCEPT ![n].stage = "thrown"]
    /\ unhandled' = unhandled \cup {n}
    /\ UNCHANGED <<supplied, mrDetail, deps, renderError, filedata, loadings,
                   error, files, refreshes, filedataOf>>

FilesSettle ==
    \/ \E n \in 1..Len(files) : FilesFetchResolved(n)
    \/ \E n \in 1..Len(files) : FilesFetchRejected(n)
    \/ \E n \in 1..Len(files) : FilesJsonRejected(n)
    \/ \E n \in 1..Len(files), result \in Results : FilesJsonResolved(n, result)

Next ==
    \/ \E s \in Supplies : Render(s)
    \/ MergeClick
    \/ \E n \in 1..Len(files) : FilesFetchResolved(n)
    \/ \E n \in 1..Len(files) : FilesFetchRejected(n)
    \/ \E n \in 1..Len(files) : FilesJsonRejected(n)
    \/ \E n \in 1..Len(files), result \in Results : FilesJsonResolved(n, result)
    \/ \E n \in 1..Len(merges), ok \in BOOLEAN : MergeResolved(n, ok)
    \/ \E n \in 1..Len(merges) : MergeRejected(n)

Spec == Init /\ [][Next]_vars

\* Every issued GET eventually settles.
LiveSpec == Spec /\ WF_vars(FilesSettle)

\* ------------------------------------------------------------- claims
Settled(reqs) == (1..Len(reqs)) \ InFlight(reqs)

\* A step in which the parent supplies a prop.
Supplied == Len(supplied') > Len(supplied)

\* C1: in every reachable state each slot's busy flag is true exactly when
\* an operation of that slot has started and not yet completed.
C1_BusyIffInFlight ==
    /\ Busy(loadings, 1) <=> (InFlight(merges) # {})
    /\ Busy(loadings, 2) <=> (InFlight(files) # {})

\* C2: when the merge POST answers with a 2xx response, router.refresh() is
\* called exactly once for that activation (and never again later) and
\* slot 1 is cleared.
C2_MergeOkRefreshesOnce ==
    [][\A n \in 1..Len(merges') :
          /\ merges'[n].stage = "ok" => refreshes'[n] = 1
          /\ (n <= Len(merges) /\ merges[n].stage = "fetch"
                /\ merges'[n].stage = "ok") => ~Busy(loadings', 1)]_vars

C2_Witness ==
    \E n \in 1..Len(merges) :
        merges[n].stage = "ok" /\ refreshes[n] = 1 /\ ~Busy(loadings, 1)

\* C3: when the merge POST answers with a response that is not 2xx, slot 1
\* is cleared, router.refresh() is not called for that activation, and no
\* error is raised or stored.
C3_MergeNotOkIsSilent ==
    [][\A n \in 1..Len(merges') :
          /\ merges'[n].stage = "notok" => refreshes'[n] = 0 /\ n \notin unhandled'
          /\ (n <= Len(merges) /\ merges[n].stage = "fetch"
                /\ merges'[n].stage = "notok")
             => /\ ~Busy(loadings', 1)
                /\ error' = error
                /\ unhandled' = unhandled]_vars

C3_Witness ==
    \E n \in 1..Len(merges) :
        merges[n].stage = "notok" /\ refreshes[n] = 0 /\ ~Busy(loadings, 1)

\* C4: once a merge POST has thrown, slot 1 is busy in every later state
\* and router.refresh() is never called for that activation.
C4_MergeThrowSticks ==
    \A n \in 1..Len(merges) :
        merges[n].stage = "thrown" => Busy(loadings, 1) /\ refreshes[n] = 0

C4_Witness ==
    \E n \in 1..Len(merges) :
        /\ merges[n].stage = "thrown"
        /\ n \in unhandled
        /\ InFlight(merges) = {}
        /\ Busy(loadings, 1)

\* C5 as stated: when a file-list fetch fails, the file list is what it was
\* when that fetch started, the error is stored and nothing is thrown.
C5_FailKeepsListFromStart ==
    [][\A n \in InFlight(files) :
          files'[n].stage = "failed"
          => /\ filedata' = files[n].before
             /\ error' # NoError
             /\ unhandled' = unhandled]_vars

\* C5 amended: when a file-list fetch fails, the file list is what it was
\* just before the failure was handled (and still empty if no fetch has
\* succeeded), the error of that fetch is stored and nothing is thrown.
C5_FailLeavesListUntouched ==
    [][\A n \in InFlight(files) :
          files'[n].stage = "failed"
          => /\ filedata' = filedata
             /\ filedataOf' = filedataOf
             /\ ((\A m \in 1..Len(files) : files[m].stage # "done")
                    => filedata' = <<>>)
             /\ error' # NoError
             /\ error'.n = n
             /\ renderError' = renderError
             /\ unhandled' = unhandled]_vars

C5_Witness ==
    \E n \in 1..Len(files) :
        /\ files[n].stage = "failed"
        /\ error.n = n
        /\ filedata # <<>>
        /\ filedata # files[n].before

\* C6: slot 2 is busy when the GET is issued, the step that settles a GET
\* (success or failure) leaves slot 2 cleared, and when every GET settles
\* and no more summaries arrive slot 2 ends false for good.
C6_SlotTwoLifecycle ==
    /\ [][\A n \in 1..Len(files') :
             /\ n > Len(files) => files'[n].busy /\ Busy(loadings', 2)
             /\ (n \in InFlight(files) /\ n \in Settled(files'))
                   => ~Busy(loadings', 2)]_vars
    /\ <>[](~Busy(loadings, 2))

C6_Witness ==
    /\ \E n \in 1..Len(files) : files[n].stage = "failed"
    /\ \E n \in 1..Len(files) : files[n].stage = "done"
    /\ InFlight(files) = {}
    /\ ~Busy(loadings, 2)

GetsFor(reqs, id) == Cardinality({n \in 1..Len(reqs) : reqs[n].id = id})

\* C7 as stated: after the component receives a summary whose identifier is
\* defined, exactly one GET has been issued for that identifier.
C7_OneGetPerIdentifier ==
    [][(Supplied /\ mrDetail' # Absent)
          => LET id == Heap[mrDetail'].id
             IN  id \notin {"undefined", "null"} => GetsFor(files', id) = 1]_vars

\* C7 amended: a received summary issues exactly one GET, for its own
\* identifier, when it is a different object from the previous one (or the
\* first) and its identifier is truthy; otherwise it issues none.
C7_OneGetPerNewTruthySummary ==
    [][(Supplied /\ mrDetail' # Absent)
          => LET id    == Heap[mrDetail'].id
                 fresh == supplied = <<>> \/ mrDetail' # mrDetail
                 truthy == id \notin {"undefined", "null", "num:0", "str:"}
             IN  IF fresh /\ truthy
                 THEN /\ Len(files') = Len(files) + 1
                      /\ files'[Len(files')].id = id
                      /\ files'[Len(files')].stage = "fetch"
                 ELSE files' = files]_vars

C7_Witness ==
    /\ Len(files) = 2
    /\ files[1].id = files[2].id
    /\ supplied = <<1, 2>>

\* C8: a render with no summary, or with a summary whose identifier is
\* undefined or null, issues no GET, leaves slot 2 alone and puts the
\* component in no error state.
C8_NoSummaryIsSilent ==
    [][(Supplied /\ (mrDetail' = Absent \/ Nullish(Heap[mrDetail'].id)))
          => /\ files' = files
             /\ loadings' = loadings
             /\ error' = error
             /\ ~renderError']_vars

\* C9 as stated: supplying the identical summary object a second time in
\* succession issues a second GET.
C9_SameObjectFetchesAgain ==
    [][(Supplied /\ supplied # <<>> /\ mrDetail' = mrDetail
          /\ mrDetail' # Absent /\ Heap[mrDetail'].id = "num:1")
          => Len(files') = Len(files) + 1]_vars

\* C9 amended: supplying the identical summary object a second time in
\* succession issues no GET; supplying a different object with the same
\* truthy identifier issues one more GET.
C9_OnlyNewObjectFetchesAgain ==
    [][(Supplied /\ supplied # <<>> /\ mrDetail' # Absent /\ mrDetail # Absent
          /\ Heap[mrDetail'].id = Heap[mrDetail].id)
          => IF mrDetail' = mrDetail
             THEN files' = files /\ loadings' = loadings
             ELSE Heap[mrDetail'].id \in {"num:1", "str:a"}
                    => Len(files') = Len(files) + 1]_vars

C9_Witness ==
    /\ supplied = <<1, 1>>
    /\ Len(files) = 1

\* C10: a render never removes or alters a GET already issued, and a GET
\* that succeeds writes its payload to the file list whether or not its
\* identifier is still the current summary's.
C10_NoCancellation ==
    [][\A n \in 1..Len(files) :
          /\ Supplied => files'[n] = files[n]
          /\ (n \in InFlight(files) /\ files'[n].stage = "done")
                => filedataOf' = files[n].id /\ filedata' \in Payloads]_vars

C10_Witness ==
    \E n, m \in 1..Len(files) :
        /\ n < m
        /\ files[n].stage = "done"
        /\ files[m].stage = "done"
        /\ mrDetail # Absent
        /\ files[m].id = Heap[mrDetail].id
        /\ files[n].id # files[m].id
        /\ filedataOf = files[n].id
        /\ filedata # <<>>

\* C11: no merge POST is started while slot 1 is busy, so at most one
\* merge POST is in flight in every reachable state.
C11_OneMergeInFlight ==
    [][/\ Cardinality(InFlight(merges')) <= 1
       /\ Busy(loadings, 1) => Len(merges') = Len(merges)]_vars

C11_Witness ==
    /\ Len(merges) = 2
    /\ merges[1].stage \in {"ok", "notok"}
    /\ merges[2].stage = "fetch"
    /\ Busy(loadings, 1)

\* C12: a merge POST is started only in a state where the summary is
\* present with status "open", and it is for that summary's identifier.
C12_MergeOnlyWhenOpen ==
    [][Len(merges') > Len(merges)
          => /\ mrDetail # Absent
             /\ Heap[mrDetail].status = "open"
             /\ merges'[Len(merges')].id = Heap[mrDetail].id]_vars

C12_Witness ==
    /\ Len(supplied) = 2
    /\ Heap[supplied[1]].status = "open"
    /\ mrDetail # Absent
    /\ Heap[mrDetail].status # "open"
    /\ Len(merges) = 1

\* C13: the step in which a GET succeeds leaves the file list equal to the
\* payload that GET delivered: same elements, order and length.
C13_ListIsPayload ==
    [][\A n \in InFlight(files) :
          files'[n].stage = "done"
          => /\ filedata' = files'[n].got
             /\ Len(filedata') = Len(files'[n].got)
             /\ \A i \in 1..Len(filedata') : filedata'[i] = files'[n].got[i]]_vars

C13_Witness ==
    \E n, m \in 1..Len(files) :
        /\ n # m
        /\ files[n].stage = "done"
        /\ files[n].got = <<"a.txt", "b.txt">>
        /\ files[m].stage = "done"
        /\ files[m].before = <<"a.txt", "b.txt">>
        /\ files[m].got = <<"b.txt", "a.txt", "a.txt">>
        /\ filedata = <<"b.txt", "a.txt", "a.txt">>

\* loadings[index] as stored: true, false, or undefined for a hole.
Slot(l, index) ==
    IF index \notin DOMAIN l THEN "undefined"
    ELSE IF l[index] THEN "true" ELSE "false"

\* C14: a step that writes one slot leaves the other slot as it was, and
\* the write itself is not lost: slot 1 is true after a POST starts and
\* false after it is answered, slot 2 is true after a GET starts and false
\* after it settles.
C14_SlotsIndependent ==
    [][/\ Slot(loadings', 1) # Slot(loadings, 1)
            => Slot(loadings', 2) = Slot(loadings, 2)
       /\ Slot(loadings', 2) # Slot(loadings, 2)
            => Slot(loadings', 1) = Slot(loadings, 1)
       /\ Len(merges') > Len(merges) => Slot(loadings', 1) = "true"
       /\ Len(files') > Len(files) => Slot(loadings', 2) = "true"
       /\ (\E n \in InFlight(merges) : merges'[n].stage \in {"ok", "notok"})
            => Slot(loadings', 1) = "false"
       /\ (\E n \in InFlight(files) : n \in Settled(files'))
            => Slot(loadings', 2) = "false"]_vars

C14_Witness ==
    /\ Slot(loadings, 1) = "true"
    /\ Slot(loadings, 2) = "false"
    /\ InFlight(merges) # {}
    /\ Settled(files) # {}

\* C15: a GET is issued only by a step in which a summary is supplied, a
\* POST only by a step that settles nothing, one at a time; the step in
\* which a GET or a POST settles, whatever the outcome, issues no request.
C15_NoRetry ==
    [][/\ Len(files') # Len(files)
            => Supplied /\ Len(files') = Len(files) + 1
       /\ Len(merges') # Len(merges)
            => Len(merges') = Len(merges) + 1 /\ files' = files
       /\ \A n \in 1..Len(files) : files'[n].id = files[n].id
       /\ ((\E n \in InFlight(files) : files'[n].stage # files[n].stage)
             \/ (\E n \in InFlight(merges) : merges'[n].stage # merges[n].stage))
            => Len(files') = Len(files) /\ Len(merges') = Len(merges)]_vars

C15_Witness ==
    /\ Len(files) = 1
    /\ files[1].stage = "failed"
    /\ Len(merges) = 1
    /\ merges[1].stage = "thrown"
    /\ Len(supplied) = 1

\* C16: the stored error is null until a GET fails, the step in which GET n
\* fails stores that GET's error, and every other step, a successful GET
\* included, leaves the stored error as it is.
C16_ErrorIsLastFailure ==
    [][/\ (\A n \in 1..Len(files') : files'[n].stage # "failed")
            => error' = NoError
       /\ \A n \in InFlight(files) :
            files'[n].stage = "failed" => error'.n = n /\ error'.name # "null"
       /\ (\A n \in InFlight(files) : files'[n].stage # "failed")
            => error' = error]_vars

C16_Witness ==
    \E n, m \in 1..Len(files) :
        /\ files[n].stage = "failed"
        /\ error.n = n
        /\ files[m].stage = "done"
        /\ files[m].before = <<>>
        /\ filedata = files[m].got

\* C17: a step of the merge operation leaves the file list, the stored
\* error, slot 2 and the GETs as they were; a step of a file-list fetch
\* leaves slot 1, the POSTs, the refresh calls and the unhandled
\* rejections as they were.
C17_DisjointState ==
    [][/\ (merges' # merges \/ refreshes' # refreshes \/ unhandled' # unhandled)
            => /\ filedata' = filedata
               /\ filedataOf' = filedataOf
               /\ error' = error
               /\ files' = files
               /\ Slot(loadings', 2) = Slot(loadings, 2)
       /\ (files' # files \/ filedata' # filedata \/ error' # error)
            => /\ merges' = merges
               /\ refreshes' = refreshes
               /\ unhandled' = unhandled
               /\ Slot(loadings', 1) = Slot(loadings, 1)]_vars

C17_Witness ==
    /\ \E n \in 1..Len(merges) : merges[n].stage = "ok"
    /\ \E n \in 1..Len(merges) : merges[n].stage = "thrown"
    /\ filedata # <<>>
    /\ error # NoError
    /\ Slot(loadings, 1) = "true"
    /\ Slot(loadings, 2) = "false"

====
